---------------------------- MODULE Spec2Model ----------------------------
(***************************************************************************)
(* Article image scraper pipeline (image_scraper_pipeline.py).             *)
(*                                                                         *)
(* The texts of a page (URLs, attribute values) are strings; Chars gives   *)
(* the characters of each, as a sequence of one-character strings, so that *)
(* substring tests, regular-expression searches, lower-casing, URL         *)
(* parsing and suffix extraction are computed on the characters as the     *)
(* Python code computes them.  Search terms are written as characters.     *)
(***************************************************************************)
EXTENDS Integers, Sequences, FiniteSets, TLC

(***************************************************************************)
(* The article and the texts its page can hold                             *)
(***************************************************************************)

ArticleUrl == "https://site.com/news/story.html"

UrlHero    == "https://cdn.example.com/hero-large.jpg"
UrlUploads == "https://cdn.example.com/uploads/hero-1200x800.jpg"
UrlPixel   == "https://site.com/assets/fb_pixel_tr.gif"
RefLogo    == "/logo.png"
UrlLogo    == "https://site.com/logo.png"
UrlAds     == "https://ads.googlesyndication.com/x.png"
UrlStory   == "https://site.com/media/story.webp"
UrlSmall   == "https://site.com/media/small-150x150.gif"
UrlPic     == "https://cdn.example.com/pic-800.webp"
SrcsetPic  == " https://cdn.example.com/pic-800.webp 800w, https://cdn.example.com/pic-400.webp 400w"

\* titles of articles: two that differ in a character file names cannot hold,
\* one with surplus blanks, two that differ after their first 100 characters,
\* one of dots only, one like no other
TitleColon == "Budget: 2024"
TitleQuestion == "Budget? 2024"
TitleSpaced == "  Budget:  2024 "
TitleLongA == "The long headline of a very long story about the budget, the economy and the markets in the year tweA part one"
TitleLongB == "The long headline of a very long story about the budget, the economy and the markets in the year tweB part two"
TitleDots == "..."
TitleSports == "Sports."

\* one URL at a host of each tracking domain
TrackingHostUrls ==
    {"https://www.facebook.com/x.png",
     "https://www.google-analytics.com/x.png",
     "https://www.googletagmanager.com/x.png",
     "https://ad.doubleclick.net/x.png",
     "https://pagead2.googlesyndication.com/x.png",
     "https://www.googleadservices.com/x.png",
     "https://widgets.outbrain.com/x.png",
     "https://cdn.taboola.com/x.png",
     "https://c.amazon-adsystem.com/x.png"}

\* the characters of every text
Chars ==
       ("" :> <<>>)
    @@ ("https://site.com/news/story.html" :> <<"h","t","t","p","s",":","/","/","s","i","t","e",".","c","o","m","/","n","e","w","s","/","s","t","o","r","y",".","h","t","m","l">>)
    @@ ("https://cdn.example.com/hero-large.jpg" :> <<"h","t","t","p","s",":","/","/","c","d","n",".","e","x","a","m","p","l","e",".","c","o","m","/","h","e","r","o","-","l","a","r","g","e",".","j","p","g">>)
    @@ ("https://cdn.example.com/uploads/hero-1200x800.jpg" :> <<"h","t","t","p","s",":","/","/","c","d","n",".","e","x","a","m","p","l","e",".","c","o","m","/","u","p","l","o","a","d","s","/","h","e","r","o","-","1","2","0","0","x","8","0","0",".","j","p","g">>)
    @@ ("https://site.com/assets/fb_pixel_tr.gif" :> <<"h","t","t","p","s",":","/","/","s","i","t","e",".","c","o","m","/","a","s","s","e","t","s","/","f","b","_","p","i","x","e","l","_","t","r",".","g","i","f">>)
    @@ ("/logo.png" :> <<"/","l","o","g","o",".","p","n","g">>)
    @@ ("https://site.com/logo.png" :> <<"h","t","t","p","s",":","/","/","s","i","t","e",".","c","o","m","/","l","o","g","o",".","p","n","g">>)
    @@ ("https://ads.googlesyndication.com/x.png" :> <<"h","t","t","p","s",":","/","/","a","d","s",".","g","o","o","g","l","e","s","y","n","d","i","c","a","t","i","o","n",".","c","o","m","/","x",".","p","n","g">>)
    @@ ("https://site.com/media/story.webp" :> <<"h","t","t","p","s",":","/","/","s","i","t","e",".","c","o","m","/","m","e","d","i","a","/","s","t","o","r","y",".","w","e","b","p">>)
    @@ ("https://site.com/media/small-150x150.gif" :> <<"h","t","t","p","s",":","/","/","s","i","t","e",".","c","o","m","/","m","e","d","i","a","/","s","m","a","l","l","-","1","5","0","x","1","5","0",".","g","i","f">>)
    @@ ("https://cdn.example.com/pic-800.webp" :> <<"h","t","t","p","s",":","/","/","c","d","n",".","e","x","a","m","p","l","e",".","c","o","m","/","p","i","c","-","8","0","0",".","w","e","b","p">>)
    @@ (" https://cdn.example.com/pic-800.webp 800w, https://cdn.example.com/pic-400.webp 400w" :> <<" ","h","t","t","p","s",":","/","/","c","d","n",".","e","x","a","m","p","l","e",".","c","o","m","/","p","i","c","-","8","0","0",".","w","e","b","p"," ","8","0","0","w",","," ","h","t","t","p","s",":","/","/","c","d","n",".","e","x","a","m","p","l","e",".","c","o","m","/","p","i","c","-","4","0","0",".","w","e","b","p"," ","4","0","0","w">>)
    @@ ("https://www.facebook.com/x.png" :> <<"h","t","t","p","s",":","/","/","w","w","w",".","f","a","c","e","b","o","o","k",".","c","o","m","/","x",".","p","n","g">>)
    @@ ("https://www.google-analytics.com/x.png" :> <<"h","t","t","p","s",":","/","/","w","w","w",".","g","o","o","g","l","e","-","a","n","a","l","y","t","i","c","s",".","c","o","m","/","x",".","p","n","g">>)
    @@ ("https://www.googletagmanager.com/x.png" :> <<"h","t","t","p","s",":","/","/","w","w","w",".","g","o","o","g","l","e","t","a","g","m","a","n","a","g","e","r",".","c","o","m","/","x",".","p","n","g">>)
    @@ ("https://ad.doubleclick.net/x.png" :> <<"h","t","t","p","s",":","/","/","a","d",".","d","o","u","b","l","e","c","l","i","c","k",".","n","e","t","/","x",".","p","n","g">>)
    @@ ("https://pagead2.googlesyndication.com/x.png" :> <<"h","t","t","p","s",":","/","/","p","a","g","e","a","d","2",".","g","o","o","g","l","e","s","y","n","d","i","c","a","t","i","o","n",".","c","o","m","/","x",".","p","n","g">>)
    @@ ("https://www.googleadservices.com/x.png" :> <<"h","t","t","p","s",":","/","/","w","w","w",".","g","o","o","g","l","e","a","d","s","e","r","v","i","c","e","s",".","c","o","m","/","x",".","p","n","g">>)
    @@ ("https://widgets.outbrain.com/x.png" :> <<"h","t","t","p","s",":","/","/","w","i","d","g","e","t","s",".","o","u","t","b","r","a","i","n",".","c","o","m","/","x",".","p","n","g">>)
    @@ ("https://cdn.taboola.com/x.png" :> <<"h","t","t","p","s",":","/","/","c","d","n",".","t","a","b","o","o","l","a",".","c","o","m","/","x",".","p","n","g">>)
    @@ ("https://c.amazon-adsystem.com/x.png" :> <<"h","t","t","p","s",":","/","/","c",".","a","m","a","z","o","n","-","a","d","s","y","s","t","e","m",".","c","o","m","/","x",".","p","n","g">>)
    @@ ("Budget: 2024" :> <<"B","u","d","g","e","t",":"," ","2","0","2","4">>)
    @@ ("Budget_ 2024" :> <<"B","u","d","g","e","t","_"," ","2","0","2","4">>)
    @@ ("Budget? 2024" :> <<"B","u","d","g","e","t","?"," ","2","0","2","4">>)
    @@ ("  Budget:  2024 " :> <<" "," ","B","u","d","g","e","t",":"," "," ","2","0","2","4"," ">>)
    @@ ("The long headline of a very long story about the budget, the economy and the markets in the year tweA part one" :> <<"T","h","e"," ","l","o","n","g"," ","h","e","a","d","l","i","n","e"," ","o","f"," ","a"," ","v","e","r","y"," ","l","o","n","g"," ","s","t","o","r","y"," ","a","b","o","u","t"," ","t","h","e"," ","b","u","d","g","e","t",","," ","t","h","e"," ","e","c","o","n","o","m","y"," ","a","n","d"," ","t","h","e"," ","m","a","r","k","e","t","s"," ","i","n"," ","t","h","e"," ","y","e","a","r"," ","t","w","e","A"," ","p","a","r","t"," ","o","n","e">>)
    @@ ("The long headline of a very long story about the budget, the economy and the markets in the year twe" :> <<"T","h","e"," ","l","o","n","g"," ","h","e","a","d","l","i","n","e"," ","o","f"," ","a"," ","v","e","r","y"," ","l","o","n","g"," ","s","t","o","r","y"," ","a","b","o","u","t"," ","t","h","e"," ","b","u","d","g","e","t",","," ","t","h","e"," ","e","c","o","n","o","m","y"," ","a","n","d"," ","t","h","e"," ","m","a","r","k","e","t","s"," ","i","n"," ","t","h","e"," ","y","e","a","r"," ","t","w","e">>)
    @@ ("The long headline of a very long story about the budget, the economy and the markets in the year tweB part two" :> <<"T","h","e"," ","l","o","n","g"," ","h","e","a","d","l","i","n","e"," ","o","f"," ","a"," ","v","e","r","y"," ","l","o","n","g"," ","s","t","o","r","y"," ","a","b","o","u","t"," ","t","h","e"," ","b","u","d","g","e","t",","," ","t","h","e"," ","e","c","o","n","o","m","y"," ","a","n","d"," ","t","h","e"," ","m","a","r","k","e","t","s"," ","i","n"," ","t","h","e"," ","y","e","a","r"," ","t","w","e","B"," ","p","a","r","t"," ","t","w","o">>)
    @@ ("..." :> <<".",".",".">>)
    @@ ("unnamed_article" :> <<"u","n","n","a","m","e","d","_","a","r","t","i","c","l","e">>)
    @@ ("Sports." :> <<"S","p","o","r","t","s",".">>)
    @@ ("Sports" :> <<"S","p","o","r","t","s">>)
    @@ ("Untitled" :> <<"U","n","t","i","t","l","e","d">>)
    @@ ("Main photo of the story" :> <<"M","a","i","n"," ","p","h","o","t","o"," ","o","f"," ","t","h","e"," ","s","t","o","r","y">>)
    @@ ("featured wide" :> <<"f","e","a","t","u","r","e","d"," ","w","i","d","e">>)
    @@ ("figure" :> <<"f","i","g","u","r","e">>)
    @@ ("article-body" :> <<"a","r","t","i","c","l","e","-","b","o","d","y">>)
    @@ ("content" :> <<"c","o","n","t","e","n","t">>)
    @@ ("promo" :> <<"p","r","o","m","o">>)
    @@ ("sidebar" :> <<"s","i","d","e","b","a","r">>)
    @@ ("right-rail" :> <<"r","i","g","h","t","-","r","a","i","l">>)

\* the text with the given characters
Str(chars) == CHOOSE s \in DOMAIN Chars : Chars[s] = chars

(***************************************************************************)
(* Text primitives (Python str operations used by the pipeline)            *)
(***************************************************************************)

\* str.lower() on one character
UpperToLower ==
    [A |-> "a", B |-> "b", C |-> "c", D |-> "d", E |-> "e", F |-> "f", G |-> "g",
     H |-> "h", I |-> "i", J |-> "j", K |-> "k", L |-> "l", M |-> "m", N |-> "n",
     O |-> "o", P |-> "p", Q |-> "q", R |-> "r", S |-> "s", T |-> "t", U |-> "u",
     V |-> "v", W |-> "w", X |-> "x", Y |-> "y", Z |-> "z"]

LowerChar(c) == IF c \in DOMAIN UpperToLower THEN UpperToLower[c] ELSE c

\* s.lower()
RECURSIVE Lower(_)
Lower(s) == IF s = <<>> THEN <<>> ELSE <<LowerChar(s[1])>> \o Lower(Tail(s))

\* t occurs in s starting at position i
StartsAt(s, t, i) ==
    /\ i >= 1
    /\ i + Len(t) - 1 <= Len(s)
    /\ \A k \in 1..Len(t) : s[i + k - 1] = t[k]

\* "t in s"
Contains(s, t) == \E i \in 1..(Len(s) - Len(t) + 1) : StartsAt(s, t, i)

\* any(term in s for term in terms)
ContainsAny(s, terms) == \E t \in terms : Contains(s, t)

\* s.endswith(t)
EndsWith(s, t) == Len(t) <= Len(s) /\ StartsAt(s, t, Len(s) - Len(t) + 1)

\* s.startswith(t)
StartsWith(s, t) == StartsAt(s, t, 1)

\* s[i:] with a 1-based first position
Tail_(s, i) == SubSeq(s, i, Len(s))

\* first position >= from at which one of the characters occurs, Len(s)+1 if none
FirstOf(s, chars, from) ==
    IF \E i \in from..Len(s) : s[i] \in chars
    THEN CHOOSE i \in from..Len(s) :
            s[i] \in chars /\ \A j \in from..(i - 1) : s[j] \notin chars
    ELSE Len(s) + 1

\* last position at which the character occurs, 0 if none (rfind, 1-based)
LastOf(s, c) ==
    IF \E i \in 1..Len(s) : s[i] = c
    THEN CHOOSE i \in 1..Len(s) : s[i] = c /\ \A j \in (i + 1)..Len(s) : s[j] # c
    ELSE 0

\* s.strip() for blanks
RECURSIVE StripBlanks(_)
StripBlanks(s) ==
    IF s = <<>> THEN s
    ELSE IF s[1] = " " THEN StripBlanks(Tail(s))
    ELSE IF s[Len(s)] = " " THEN StripBlanks(SubSeq(s, 1, Len(s) - 1))
    ELSE s

Digits == {"0", "1", "2", "3", "4", "5", "6", "7", "8", "9"}

\* the regular expression \d+x\d+ matches somewhere in s
HasDimension(s) ==
    \E i \in 1..(Len(s) - 2) : s[i] \in Digits /\ s[i + 1] = "x" /\ s[i + 2] \in Digits

(***************************************************************************)
(* urllib.parse                                                            *)
(***************************************************************************)

\* position of "://" in an absolute URL, 0 if the text has no scheme
SchemeEnd(u) ==
    IF \E i \in 1..Len(u) : StartsAt(u, <<":","/","/">>, i)
    THEN CHOOSE i \in 1..Len(u) :
            StartsAt(u, <<":","/","/">>, i) /\ \A j \in 1..(i - 1) : ~StartsAt(u, <<":","/","/">>, j)
    ELSE 0

\* urlparse(u) for an absolute URL: netloc, path and query
urlparse(u) ==
    LET hostFrom == SchemeEnd(u) + 3
        hostEnd  == FirstOf(u, {"/", "?", "#"}, hostFrom)
        pathEnd  == FirstOf(u, {"?", "#"}, hostEnd)
        fragAt   == FirstOf(u, {"#"}, pathEnd)
    IN  [netloc |-> SubSeq(u, hostFrom, hostEnd - 1),
         path   |-> SubSeq(u, hostEnd, pathEnd - 1),
         query  |-> IF pathEnd <= Len(u) /\ u[pathEnd] = "?"
                    THEN SubSeq(u, pathEnd + 1, fragAt - 1) ELSE <<>>]

\* urljoin(base, ref) for the two shapes of reference the pages hold: an
\* absolute URL is returned as it is, a reference that starts with "/" replaces
\* the path of the base
urljoin(base, ref) ==
    LET b == Chars[base]
        r == Chars[ref]
    IN  IF SchemeEnd(r) > 0 THEN ref
        ELSE Str(SubSeq(b, 1, FirstOf(b, {"/", "?", "#"}, SchemeEnd(b) + 3) - 1) \o r)

\* Path(path).suffix: the text from the last dot of the final component, when
\* that dot is neither its first nor its last character
PathSuffix(path) ==
    LET name == Tail_(path, LastOf(path, "/") + 1)
        dot  == LastOf(name, ".")
    IN  IF 1 < dot /\ dot < Len(name) THEN Tail_(name, dot) ELSE <<>>

(***************************************************************************)
(* Filter                                                                  *)
(***************************************************************************)

\* self.exclude_regex.search(s): the alternation of exclude_patterns,
\* case-insensitive
exclude_regex_search(s) ==
    LET l == Lower(s) IN
    \/ ContainsAny(l, {<<"l","o","g","o">>, <<"i","c","o","n">>, <<"f","a","v","i","c","o","n">>, <<"a","v","a","t","a","r">>, <<"p","r","o","f","i","l","e">>,
                       <<"a","d","v","e","r","t","i","s","e","m","e","n","t">>, <<"a","d","_">>, <<"a","d","-">>, <<"b","a","n","n","e","r">>, <<"w","i","d","g","e","t">>,
                       <<"s","o","c","i","a","l">>, <<"s","h","a","r","e">>, <<"b","u","t","t","o","n">>, <<"a","r","r","o","w">>, <<"p","l","a","y">>})
    \/ \E i \in 1..Len(l) :
          StartsAt(l, <<"t","h","u","m","b","n","a","i","l">>, i) /\ Contains(Tail_(l, i + 9), <<"s","m","a","l","l">>)
    \/ \E i \in 1..Len(l) :
          StartsAt(l, <<"t","h","u","m","b">>, i) /\ HasDimension(Tail_(l, i + 5))
    \/ \E i \in 1..(Len(l) - 2) :
          /\ l[i] \in Digits /\ l[i + 1] = "x" /\ l[i + 2] \in Digits
          /\ Contains(Tail_(l, i + 3), <<"t","h","u","m","b">>)
    \/ ContainsAny(l, {<<"f","a","c","e","b","o","o","k",".","c","o","m","/","t","r">>, <<"g","o","o","g","l","e","-","a","n","a","l","y","t","i","c","s">>, <<"g","o","o","g","l","e","t","a","g","m","a","n","a","g","e","r">>,
                       <<"d","o","u","b","l","e","c","l","i","c","k">>, <<"g","o","o","g","l","e","s","y","n","d","i","c","a","t","i","o","n">>, <<"a","d","s","y","s","t","e","m">>,
                       <<"p","i","x","e","l","?">>, <<"t","r","a","c","k","?">>, <<"b","e","a","c","o","n","?">>, <<"a","n","a","l","y","t","i","c","s">>,
                       <<"1","x","1",".","g","i","f">>, <<"t","r","a","n","s","p","a","r","e","n","t",".","g","i","f">>, <<"s","p","a","c","e","r",".","g","i","f">>})

valid_extensions == {<<".","j","p","g">>, <<".","j","p","e","g">>, <<".","p","n","g">>, <<".","w","e","b","p">>, <<".","g","i","f">>, <<".","b","m","p">>, <<".","s","v","g">>}

\* the test of the host against the tracking domains left out
_should_exclude_image_urlMutant(img_url) ==
    LET url          == Chars[img_url]
        parsed_url   == urlparse(url)
        netloc       == Lower(parsed_url.netloc)
        path_ext     == Lower(PathSuffix(parsed_url.path))
        is_image_cdn == ContainsAny(netloc, {<<"s","t","a","t","i","c",".","t","o","i","i","m","g",".","c","o","m">>, <<"i","m","a","g","e","s",".">>,
                                             <<"i","m","g",".">>, <<"c","d","n",".">>, <<"a","s","s","e","t","s",".">>})
    IN  IF exclude_regex_search(url) THEN TRUE
        ELSE IF ContainsAny(Lower(url), {<<"f","a","c","e","b","o","o","k",".","c","o","m","/","t","r">>,
                    <<"g","o","o","g","l","e","-","a","n","a","l","y","t","i","c","s",".","c","o","m">>, <<"/","p","i","x","e","l","?">>, <<"/","t","r","a","c","k","?">>, <<"/","b","e","a","c","o","n","?">>,
                    <<"/","a","n","a","l","y","t","i","c","s","?">>, <<"g","o","o","g","l","e","t","a","g","m","a","n","a","g","e","r",".","c","o","m">>})
             THEN TRUE
        ELSE IF ContainsAny(Lower(parsed_url.query),
                            {<<"f","b","c","l","i","d">>, <<"g","c","l","i","d">>, <<"u","t","m","_">>, <<"p","i","x","e","l">>})
             THEN TRUE
        ELSE IF ContainsAny(url, {<<"w","i","d","t","h","=","1">>, <<"h","e","i","g","h","t","=","1">>, <<"1","x","1">>}) THEN TRUE
        ELSE IF path_ext = <<>> /\ ~is_image_cdn THEN TRUE
        ELSE IF path_ext # <<>> /\ path_ext \notin valid_extensions THEN TRUE
        ELSE FALSE

\* _should_exclude_image_url
_should_exclude_image_url(img_url) ==
    LET url          == Chars[img_url]
        parsed_url   == urlparse(url)
        netloc       == Lower(parsed_url.netloc)
        path_ext     == Lower(PathSuffix(parsed_url.path))
        is_image_cdn == ContainsAny(netloc, {<<"s","t","a","t","i","c",".","t","o","i","i","m","g",".","c","o","m">>, <<"i","m","a","g","e","s",".">>,
                                             <<"i","m","g",".">>, <<"c","d","n",".">>, <<"a","s","s","e","t","s",".">>})
    IN  IF exclude_regex_search(url) THEN TRUE
        ELSE IF ContainsAny(netloc, {<<"f","a","c","e","b","o","o","k",".","c","o","m">>, <<"g","o","o","g","l","e","-","a","n","a","l","y","t","i","c","s",".","c","o","m">>,
                    <<"g","o","o","g","l","e","t","a","g","m","a","n","a","g","e","r",".","c","o","m">>, <<"d","o","u","b","l","e","c","l","i","c","k",".","n","e","t">>,
                    <<"g","o","o","g","l","e","s","y","n","d","i","c","a","t","i","o","n",".","c","o","m">>, <<"g","o","o","g","l","e","a","d","s","e","r","v","i","c","e","s",".","c","o","m">>,
                    <<"o","u","t","b","r","a","i","n",".","c","o","m">>, <<"t","a","b","o","o","l","a",".","c","o","m">>, <<"a","m","a","z","o","n","-","a","d","s","y","s","t","e","m",".","c","o","m">>})
             THEN TRUE
        ELSE IF ContainsAny(Lower(url), {<<"f","a","c","e","b","o","o","k",".","c","o","m","/","t","r">>,
                    <<"g","o","o","g","l","e","-","a","n","a","l","y","t","i","c","s",".","c","o","m">>, <<"/","p","i","x","e","l","?">>, <<"/","t","r","a","c","k","?">>, <<"/","b","e","a","c","o","n","?">>,
                    <<"/","a","n","a","l","y","t","i","c","s","?">>, <<"g","o","o","g","l","e","t","a","g","m","a","n","a","g","e","r",".","c","o","m">>})
             THEN TRUE
        ELSE IF ContainsAny(Lower(parsed_url.query),
                            {<<"f","b","c","l","i","d">>, <<"g","c","l","i","d">>, <<"u","t","m","_">>, <<"p","i","x","e","l">>})
             THEN TRUE
        ELSE IF ContainsAny(url, {<<"w","i","d","t","h","=","1">>, <<"h","e","i","g","h","t","=","1">>, <<"1","x","1">>}) THEN TRUE
        ELSE IF path_ext = <<>> /\ ~is_image_cdn THEN TRUE
        ELSE IF path_ext # <<>> /\ path_ext \notin valid_extensions THEN TRUE
        ELSE FALSE

\* An element attribute holding a number: absent, not a number, or a number
NoAttr == [kind |-> "none", val |-> 0]
BadAttr == [kind |-> "bad", val |-> 0]
IntAttr(n) == [kind |-> "int", val |-> n]

\* self.min_image_size
min_image_size == <<100, 100>>

\* _should_exclude_image
_should_exclude_image(img_tag, img_url) ==
    IF _should_exclude_image_url(img_url) THEN TRUE
    ELSE IF exclude_regex_search(Lower(Chars[img_tag.alt])) THEN TRUE
    ELSE IF exclude_regex_search(Lower(Chars[img_tag.class])) THEN TRUE
    ELSE IF img_tag.width.kind # "none" /\ img_tag.height.kind # "none"
         THEN IF img_tag.width.kind = "int" /\ img_tag.height.kind = "int"
              THEN \/ img_tag.width.val < min_image_size[1]
                   \/ img_tag.height.val < min_image_size[2]
              ELSE FALSE
    ELSE FALSE

(***************************************************************************)
(* sanitize_filename                                                       *)
(***************************************************************************)

\* the characters of the class [<>:"/\\|?*]
InvalidChars == {"<", ">", ":", "\"", "/", "\\", "|", "?", "*"}

\* the characters \s matches
Whitespace == {" ", "\t", "\n", "\r", "\f"}

\* re.sub(r'[<>:"/\\|?*]', '_', s)
ReplaceInvalid(s) == [i \in 1..Len(s) |-> IF s[i] \in InvalidChars THEN "_" ELSE s[i]]

\* s.strip(chars): what lies between the first and the last character not in chars
Strip(s, chars) ==
    LET kept == {i \in 1..Len(s) : s[i] \notin chars}
    IN  IF kept = {} THEN <<>>
        ELSE SubSeq(s, CHOOSE i \in kept : \A j \in kept : i <= j,
                       CHOOSE i \in kept : \A j \in kept : j <= i)

\* re.sub(r'\s+', ' ', s): every run of whitespace becomes one blank (the last
\* character of each run is kept, as a blank)
CollapseWhitespace(s) ==
    LET kept == {i \in 1..Len(s) :
                    ~(s[i] \in Whitespace /\ i < Len(s) /\ s[i + 1] \in Whitespace)}
        at(k) == CHOOSE i \in kept : Cardinality({j \in kept : j <= i}) = k
    IN  [k \in 1..Cardinality(kept) |->
            IF s[at(k)] \in Whitespace THEN " " ELSE s[at(k)]]

\* s[:100]
First100(s) == SubSeq(s, 1, IF Len(s) < 100 THEN Len(s) ELSE 100)

\* sanitize_filename
sanitize_filename(filename) ==
    LET replaced == ReplaceInvalid(Chars[filename])
        limited  == First100(CollapseWhitespace(Strip(replaced, Whitespace)))
        stripped == Strip(limited, {".", " "})
    IN  IF stripped = <<>> THEN "unnamed_article" ELSE Str(stripped)

(***************************************************************************)
(* Scorer                                                                  *)
(***************************************************************************)

\* An image element as the scorer and the filter read it: alt text, class
\* names joined by blanks, declared width and height, the chain of ancestors
\* (parent first) with their joined class names and id, and the text length of
\* the caption found under the nearest figure/div ancestor.
\* img_tag = None is the element with present = FALSE.
NoTag ==
    [present |-> FALSE, alt |-> "", class |-> "", width |-> NoAttr,
     height |-> NoAttr, ancestors |-> <<>>, caption |-> [found |-> FALSE, len |-> 0]]

Max(a, b) == IF a >= b THEN a ELSE b
Min(a, b) == IF a <= b THEN a ELSE b

\* the ancestor loop of analyze_image_context: at most 3 levels, stopping at
\* the first ancestor that matches a positive or a negative indicator
RECURSIVE ContextWalk(_, _)
ContextWalk(ancestors, levels) ==
    IF levels = 0 \/ ancestors = <<>> THEN 0
    ELSE LET where == Lower(Chars[ancestors[1].class]) \o Lower(Chars[ancestors[1].id]) IN
         IF ContainsAny(where, {<<"a","r","t","i","c","l","e">>, <<"c","o","n","t","e","n","t">>, <<"s","t","o","r","y">>, <<"b","o","d","y">>,
                                <<"p","o","s","t">>, <<"m","a","i","n">>, <<"e","n","t","r","y">>})
         THEN 15
         ELSE IF ContainsAny(where, {<<"h","e","a","d","e","r">>, <<"n","a","v">>, <<"f","o","o","t","e","r">>, <<"s","i","d","e","b","a","r">>,
                                     <<"m","e","n","u">>, <<"a","d">>, <<"w","i","d","g","e","t">>})
         THEN -10
         ELSE ContextWalk(Tail(ancestors), levels - 1)

\* analyze_image_context
analyze_image_context(img_tag) ==
    IF ~img_tag.present THEN 0
    ELSE LET walk    == ContextWalk(img_tag.ancestors, 3)
             caption == IF img_tag.caption.found /\ img_tag.caption.len > 10
                        THEN 10 ELSE 0
         IN  Max(0, walk + caption)

\* the sum of score_image_relevance before the final clamp
RawScore(img_url, img_tag, source_method) ==
    LET url_lower == Lower(Chars[img_url])
        method ==
            CASE source_method = "trafilatura_main" -> 30
              [] source_method = "newspaper_top" -> 25
              [] source_method = "trafilatura" -> 15
              [] source_method = "newspaper" -> 10
              [] source_method = "soup" -> 5
              [] OTHER -> 0
        positive ==
            (IF ContainsAny(url_lower, {<<"f","e","a","t","u","r","e","d">>, <<"m","a","i","n">>, <<"h","e","r","o">>, <<"c","o","v","e","r">>,
                                        <<"a","r","t","i","c","l","e">>}) THEN 20 ELSE 0)
          + (IF ContainsAny(url_lower, {<<"l","a","r","g","e">>, <<"b","i","g">>, <<"f","u","l","l">>, <<"o","r","i","g","i","n","a","l">>})
             THEN 12 ELSE 0)
          + (IF Contains(url_lower, <<"w","p","-","c","o","n","t","e","n","t","/","u","p","l","o","a","d","s">>) THEN 10 ELSE 0)
          + (IF ContainsAny(url_lower, {<<"p","h","o","t","o">>, <<"i","m","a","g","e">>, <<"p","i","c">>, <<"i","m","g">>})
             THEN 8 ELSE 0)
        negative ==
            (IF ContainsAny(url_lower, {<<"l","o","g","o">>, <<"b","r","a","n","d">>, <<"h","e","a","d","e","r">>, <<"m","a","s","t","h","e","a","d">>,
                    <<"w","a","t","e","r","m","a","r","k">>, <<"s","i","g","n","a","t","u","r","e">>, <<"e","m","b","l","e","m">>, <<"b","a","d","g","e">>, <<"s","e","a","l">>,
                    <<"m","a","r","k">>}) THEN 25 ELSE 0)
          + (IF ContainsAny(url_lower, {<<"t","o","i">>, <<"t","i","m","e","s","o","f","i","n","d","i","a">>, <<"c","o","m","p","a","n","y">>,
                                        <<"c","o","r","p">>}) THEN 15 ELSE 0)
          + (IF Contains(url_lower, <<"f","a","c","e","b","o","o","k",".","c","o","m","/","t","r">>) \/ Contains(url_lower, <<"/","t","r","?">>)
             THEN 50 ELSE 0)
          + (IF ContainsAny(url_lower, {<<"a","n","a","l","y","t","i","c","s">>, <<"t","r","a","c","k","i","n","g">>, <<"p","i","x","e","l","?">>,
                                        <<"b","e","a","c","o","n","?">>}) THEN 40 ELSE 0)
          + (IF ContainsAny(url_lower, {<<"t","h","u","m","b">>, <<"s","m","a","l","l">>, <<"m","i","n","i">>, <<"i","c","o","n">>})
             THEN 15 ELSE 0)
          + (IF ContainsAny(url_lower, {<<"a","d">>, <<"b","a","n","n","e","r">>, <<"w","i","d","g","e","t">>, <<"s","i","d","e","b","a","r">>})
             THEN 20 ELSE 0)
          + (IF ContainsAny(url_lower, {<<"s","o","c","i","a","l">>, <<"s","h","a","r","e">>, <<"p","r","o","f","i","l","e">>, <<"a","v","a","t","a","r">>})
             THEN 10 ELSE 0)
          + (IF ContainsAny(url_lower, {<<"1","5","0","x">>, <<"2","0","0","x">>, <<"1","0","0","x">>, <<"5","0","x">>})
             THEN 12 ELSE 0)
          + (IF ContainsAny(url_lower, {<<"x","1","5","0">>, <<"x","2","0","0">>, <<"x","1","0","0">>, <<"x","5","0">>})
             THEN 12 ELSE 0)
        alt_text == Lower(Chars[img_tag.alt])
        classes  == Lower(Chars[img_tag.class])
        parent_classes ==
            IF img_tag.ancestors = <<>> THEN <<>> ELSE Lower(Chars[img_tag.ancestors[1].class])
        tag ==
            IF ~img_tag.present THEN 0
            ELSE (IF alt_text # <<>> /\ ContainsAny(alt_text, {<<"a","r","t","i","c","l","e">>, <<"s","t","o","r","y">>,
                        <<"n","e","w","s">>, <<"m","a","i","n">>, <<"p","h","o","t","o">>}) THEN 10 ELSE 0)
               - (IF alt_text # <<>> /\ ContainsAny(alt_text, {<<"l","o","g","o">>, <<"i","c","o","n">>,
                        <<"b","u","t","t","o","n">>, <<"a","r","r","o","w">>}) THEN 15 ELSE 0)
               + (IF ContainsAny(classes, {<<"f","e","a","t","u","r","e","d">>, <<"h","e","r","o">>, <<"m","a","i","n">>})
                  THEN 15 ELSE 0)
               - (IF ContainsAny(classes, {<<"s","i","d","e","b","a","r">>, <<"w","i","d","g","e","t">>, <<"a","d">>, <<"b","a","n","n","e","r">>})
                  THEN 20 ELSE 0)
               + (IF ContainsAny(parent_classes, {<<"a","r","t","i","c","l","e">>, <<"c","o","n","t","e","n","t">>})
                  THEN 10 ELSE 0)
               - (IF ContainsAny(parent_classes, {<<"s","i","d","e","b","a","r">>, <<"f","o","o","t","e","r">>})
                  THEN 15 ELSE 0)
        context == IF img_tag.present THEN analyze_image_context(img_tag) ELSE 0
        extension ==
            IF EndsWith(url_lower, <<".","j","p","g">>) \/ EndsWith(url_lower, <<".","j","p","e","g">>) THEN 5
            ELSE IF EndsWith(url_lower, <<".","p","n","g">>) THEN 2
            ELSE IF EndsWith(url_lower, <<".","g","i","f">>) THEN -5
            ELSE 0
    IN  50 + method + positive - negative + tag + context + extension

\* the upper limit left out
ClampMutant(score) == Max(0, score)

\* max(0, min(100, score))
Clamp(score) == Max(0, Min(100, score))

\* score_image_relevance
score_image_relevance(img_url, img_tag, source_method) ==
    Clamp(RawScore(img_url, img_tag, source_method))

\* the absolute URLs the page's references resolve to
UrlPool == {UrlHero, UrlUploads, UrlPixel, UrlLogo, UrlAds, UrlStory, UrlSmall, UrlPic}

FeaturedTag ==
    [present |-> TRUE, alt |-> "Main photo of the story", class |-> "featured wide",
     width |-> IntAttr(800), height |-> IntAttr(600),
     ancestors |-> <<[class |-> "figure", id |-> ""],
                     [class |-> "article-body", id |-> "content"]>>,
     caption |-> [found |-> TRUE, len |-> 24]]

SidebarTag ==
    [present |-> TRUE, alt |-> "", class |-> "promo",
     width |-> NoAttr, height |-> NoAttr,
     ancestors |-> <<[class |-> "sidebar", id |-> "right-rail"]>>,
     caption |-> [found |-> FALSE, len |-> 0]]

TinyTag ==
    [present |-> TRUE, alt |-> "", class |-> "",
     width |-> IntAttr(50), height |-> IntAttr(50),
     ancestors |-> <<[class |-> "", id |-> ""]>>,
     caption |-> [found |-> FALSE, len |-> 0]]

PlainTag ==
    [present |-> TRUE, alt |-> "", class |-> "",
     width |-> BadAttr, height |-> IntAttr(50),
     ancestors |-> <<[class |-> "", id |-> ""]>>,
     caption |-> [found |-> TRUE, len |-> 4]]

\* an <img> element: the value of src / data-src / data-lazy-src and the element
Img(src, tag) == [src |-> src, tag |-> tag]

\* a <script type="application/ld+json"> block: its image field after the
\* list/dict unwrapping, a block that is not valid JSON, or a block with no
\* string content
LdImage(ref) == [kind |-> "image", ref |-> ref]
LdInvalid == [kind |-> "invalid_json", ref |-> ""]
LdNoString == [kind |-> "no_string", ref |-> ""]

\* what each place of the page can hold; the empty text is an absent value
TrafMainRefs     == {"", UrlStory, UrlPixel, RefLogo, UrlSmall}
TrafInlineLists  == {<<>>, <<Img(UrlUploads, FeaturedTag)>>, <<Img(UrlPixel, PlainTag)>>}
NewsTopRefs      == {"", UrlHero, UrlPixel}
NewsImagesLists  == {<<>>, <<UrlUploads>>, <<UrlPixel, RefLogo>>}
OgRefs           == {"", UrlHero, UrlUploads, UrlAds}
TwitterRefs      == {"", UrlHero}
LdJsonLists      == {<<>>, <<LdImage(UrlHero)>>, <<LdInvalid, LdImage(UrlStory)>>,
                     <<LdNoString, LdImage(UrlStory)>>}
ImgLists         == {<<>>, <<Img(UrlUploads, FeaturedTag)>>,
                     <<Img("", PlainTag), Img(RefLogo, PlainTag)>>,
                     <<Img(UrlStory, SidebarTag), Img(UrlPic, TinyTag)>>}
PictureLists     == {<<>>, <<"", SrcsetPic>>}

\* the largest number of image references on one page
MaxPageItems == 3

\* the number of image references on a page
ItemCount(p) ==
      (IF p.trafMain = "" THEN 0 ELSE 1)
    + Cardinality({i \in 1..Len(p.trafInline) : p.trafInline[i].src # ""})
    + (IF p.newsTop = "" THEN 0 ELSE 1)
    + Len(p.newsImages)
    + (IF p.og = "" THEN 0 ELSE 1)
    + (IF p.twitter = "" THEN 0 ELSE 1)
    + Cardinality({i \in 1..Len(p.ldjson) : p.ldjson[i].ref # ""})
    + Cardinality({i \in 1..Len(p.imgs) : p.imgs[i].src # ""})
    + Cardinality({i \in 1..Len(p.pictures) : p.pictures[i] # ""})

Pages ==
    {p \in [trafMain : TrafMainRefs, trafInline : TrafInlineLists,
            newsTop : NewsTopRefs, newsImages : NewsImagesLists,
            og : OgRefs, twitter : TwitterRefs, ldjson : LdJsonLists,
            imgs : ImgLists, pictures : PictureLists] :
        ItemCount(p) <= MaxPageItems}

TagPool == {NoTag, FeaturedTag, SidebarTag, TinyTag, PlainTag}

SourceMethods == {"trafilatura_main", "trafilatura", "newspaper_top", "newspaper",
                  "soup", "opengraph", "twitter_card", "schema"}

\* The filter and the scorer on the URLs and elements of the page, computed
\* once: both are pure functions of their arguments.
ScoreTable ==
    [u \in UrlPool, t \in TagPool, m \in SourceMethods |-> score_image_relevance(u, t, m)]

ExcludeUrlTable == [u \in UrlPool |-> _should_exclude_image_url(u)]

ExcludeTable == [t \in TagPool, u \in UrlPool |-> _should_exclude_image(t, u)]

Score(img_url, img_tag, source_method) == ScoreTable[img_url, img_tag, source_method]

ExcludeUrl(img_url) == ExcludeUrlTable[img_url]

Exclude(img_tag, img_url) == ExcludeTable[img_tag, img_url]

(***************************************************************************)
(* Extractors                                                              *)
(***************************************************************************)

Candidate(url, score, source) == [url |-> url, score |-> score, source |-> source]

UrlsOf(images) == {images[i].url : i \in 1..Len(images)}

\* the img loop of extract_images_trafilatura: every element with a source
\* whose URL was not seen yet is scored with its element and appended
RECURSIVE TrafInlineLoop(_, _)
TrafInlineLoop(images, img_tags) ==
    IF img_tags = <<>> THEN images
    ELSE LET img      == img_tags[1]
             full_url == urljoin(ArticleUrl, img.src)
         IN  IF img.src # "" /\ full_url \notin UrlsOf(images)
             THEN TrafInlineLoop(
                     Append(images, Candidate(full_url,
                         Score(full_url, img.tag, "trafilatura"),
                         "trafilatura")),
                     Tail(img_tags))
             ELSE TrafInlineLoop(images, Tail(img_tags))

\* extract_images_trafilatura; outcome is "ok", "nodownload" (fetch_url
\* returned nothing) or "raise" (an exception inside the try block)
extract_images_trafilatura(p, outcome) ==
    IF outcome # "ok" THEN <<>>
    ELSE LET main_img_url == urljoin(ArticleUrl, p.trafMain)
             main == IF p.trafMain # ""
                     THEN <<Candidate(main_img_url,
                              Score(main_img_url, NoTag, "trafilatura_main"),
                              "trafilatura_main")>>
                     ELSE <<>>
         IN  TrafInlineLoop(main, p.trafInline)

\* the article.images loop of extract_images_newspaper
RECURSIVE NewsImagesLoop(_, _)
NewsImagesLoop(images, img_urls) ==
    IF img_urls = <<>> THEN images
    ELSE LET full_url == urljoin(ArticleUrl, img_urls[1]) IN
         IF full_url \notin UrlsOf(images)
         THEN NewsImagesLoop(
                 Append(images, Candidate(full_url,
                     Score(full_url, NoTag, "newspaper"), "newspaper")),
                 Tail(img_urls))
         ELSE NewsImagesLoop(images, Tail(img_urls))

\* the except branch returning what was collected instead of []
extract_images_newspaperMutant(p, outcome) ==
    LET full_url == urljoin(ArticleUrl, p.newsTop)
        top == IF p.newsTop # ""
               THEN <<Candidate(full_url,
                        Score(full_url, NoTag, "newspaper_top"),
                        "newspaper_top")>>
               ELSE <<>>
    IN  NewsImagesLoop(top, p.newsImages)

\* extract_images_newspaper; outcome is "ok" or "raise"
extract_images_newspaper(p, outcome) ==
    IF outcome # "ok" THEN <<>>
    ELSE LET full_url == urljoin(ArticleUrl, p.newsTop)
             top == IF p.newsTop # ""
                    THEN <<Candidate(full_url,
                             Score(full_url, NoTag, "newspaper_top"),
                             "newspaper_top")>>
                    ELSE <<>>
         IN  NewsImagesLoop(top, p.newsImages)

\* one meta-tag candidate of extract_opengraph_images: URL-filtered, scored,
\* and the fixed bonus added to the score
MetaCandidate(ref, source, bonus) ==
    LET img_url == urljoin(ArticleUrl, ref) IN
    IF ref # "" /\ ~ExcludeUrl(img_url)
    THEN <<Candidate(img_url, Score(img_url, NoTag, source) + bonus, source)>>
    ELSE <<>>

\* the json-ld loop of extract_opengraph_images: invalid JSON skips the block,
\* any other exception ends the loop
RECURSIVE SchemaLoop(_)
SchemaLoop(scripts) ==
    IF scripts = <<>> THEN <<>>
    ELSE IF scripts[1].kind = "no_string" THEN <<>>
    ELSE IF scripts[1].kind = "invalid_json" THEN SchemaLoop(Tail(scripts))
    ELSE MetaCandidate(scripts[1].ref, "schema", 22) \o SchemaLoop(Tail(scripts))

\* extract_opengraph_images
extract_opengraph_images(p) ==
    MetaCandidate(p.og, "opengraph", 25) \o MetaCandidate(p.twitter, "twitter_card", 20)
        \o SchemaLoop(p.ldjson)

\* the call of _should_exclude_image left out
RECURSIVE SoupImgLoopMutant(_, _)
SoupImgLoopMutant(images, img_tags) ==
    IF img_tags = <<>> THEN images
    ELSE LET img      == img_tags[1]
             full_url == urljoin(ArticleUrl, img.src)
         IN  IF img.src = "" THEN SoupImgLoopMutant(images, Tail(img_tags))
             ELSE IF full_url \notin UrlsOf(images)
                  THEN SoupImgLoopMutant(
                          Append(images, Candidate(full_url,
                              Score(full_url, img.tag, "soup"), "soup")),
                          Tail(img_tags))
             ELSE SoupImgLoopMutant(images, Tail(img_tags))

\* the img loop of extract_images_beautifulsoup
RECURSIVE SoupImgLoop(_, _)
SoupImgLoop(images, img_tags) ==
    IF img_tags = <<>> THEN images
    ELSE LET img      == img_tags[1]
             full_url == urljoin(ArticleUrl, img.src)
         IN  IF img.src = "" THEN SoupImgLoop(images, Tail(img_tags))
             ELSE IF Exclude(img.tag, full_url)
                  THEN SoupImgLoop(images, Tail(img_tags))
             ELSE IF full_url \notin UrlsOf(images)
                  THEN SoupImgLoop(
                          Append(images, Candidate(full_url,
                              Score(full_url, img.tag, "soup"), "soup")),
                          Tail(img_tags))
             ELSE SoupImgLoop(images, Tail(img_tags))

\* srcset.split(',')[0].strip().split(' ')[0]
FirstSrcsetUrl(srcset) ==
    LET text     == Chars[srcset]
        first    == SubSeq(text, 1, FirstOf(text, {","}, 1) - 1)
        stripped == StripBlanks(first)
    IN  Str(SubSeq(stripped, 1, FirstOf(stripped, {" "}, 1) - 1))

\* the picture/source loop of extract_images_beautifulsoup
RECURSIVE SoupPictureLoop(_, _)
SoupPictureLoop(images, srcsets) ==
    IF srcsets = <<>> THEN images
    ELSE LET full_url == urljoin(ArticleUrl, FirstSrcsetUrl(srcsets[1])) IN
         IF /\ srcsets[1] # ""
            /\ ~ExcludeUrl(full_url)
            /\ full_url \notin UrlsOf(images)
         THEN SoupPictureLoop(
                 Append(images, Candidate(full_url,
                     Score(full_url, NoTag, "soup"), "soup")),
                 Tail(srcsets))
         ELSE SoupPictureLoop(images, Tail(srcsets))

\* extract_images_beautifulsoup; outcome is "ok" or "raise"
extract_images_beautifulsoup(p, outcome) ==
    IF outcome # "ok" THEN <<>>
    ELSE SoupPictureLoop(SoupImgLoop(extract_opengraph_images(p), p.imgs), p.pictures)

(***************************************************************************)
(* Validator                                                               *)
(***************************************************************************)

\* self.max_file_size_mb
max_file_size_mb == 10

\* What the network and the image decoder would answer for one image URL: the
\* HEAD request, its content-length header, the streamed GET, and the decoding
\* of the first bytes with the size the decoder reads.
NetBehaviours ==
    [head : {"ok", "fail"},
     content_length : {NoAttr, BadAttr, IntAttr(max_file_size_mb * 1024 * 1024),
                       IntAttr(max_file_size_mb * 1024 * 1024 + 1)},
     get : {"ok", "fail"},
     decode : {"ok", "fail"},
     size : {<<99, 100>>, <<100, 99>>, <<100, 100>>}]

\* the inner except branch answering False: an image whose size cannot be
\* read is rejected
validate_image_sizeMutant(net) ==
    LET run == [ok |-> TRUE, head |-> net.head, content_length |-> NoAttr,
                get |-> "not_run", decode |-> "not_run", size |-> <<0, 0>>]
    IN  IF net.head = "fail" THEN run
        ELSE IF net.content_length.kind = "bad"
             THEN [run EXCEPT !.content_length = net.content_length]
        ELSE IF /\ net.content_length.kind = "int"
                /\ net.content_length.val > max_file_size_mb * 1024 * 1024
             THEN [run EXCEPT !.content_length = net.content_length, !.ok = FALSE]
        ELSE IF net.get = "fail"
             THEN [run EXCEPT !.content_length = net.content_length, !.get = "fail"]
        ELSE IF net.decode = "fail"
             THEN [run EXCEPT !.content_length = net.content_length, !.get = "ok",
                              !.decode = "fail", !.ok = FALSE]
        ELSE [run EXCEPT !.content_length = net.content_length, !.get = "ok",
                         !.decode = "ok", !.size = net.size,
                         !.ok = ~(\/ net.size[1] < min_image_size[1]
                                  \/ net.size[2] < min_image_size[2])]

\* validate_image_size: the answer (ok) together with what the call observed;
\* a step the call did not reach is "not_run"
validate_image_size(net) ==
    LET run == [ok |-> TRUE, head |-> net.head, content_length |-> NoAttr,
                get |-> "not_run", decode |-> "not_run", size |-> <<0, 0>>]
    IN  IF net.head = "fail" THEN run
        ELSE IF net.content_length.kind = "bad"
             THEN [run EXCEPT !.content_length = net.content_length]
        ELSE IF /\ net.content_length.kind = "int"
                /\ net.content_length.val > max_file_size_mb * 1024 * 1024
             THEN [run EXCEPT !.content_length = net.content_length, !.ok = FALSE]
        ELSE IF net.get = "fail"
             THEN [run EXCEPT !.content_length = net.content_length, !.get = "fail"]
        ELSE IF net.decode = "fail"
             THEN [run EXCEPT !.content_length = net.content_length, !.get = "ok",
                              !.decode = "fail"]
        ELSE [run EXCEPT !.content_length = net.content_length, !.get = "ok",
                         !.decode = "ok", !.size = net.size,
                         !.ok = ~(\/ net.size[1] < min_image_size[1]
                                  \/ net.size[2] < min_image_size[2])]

\* every way one call of validate_image_size can go
ValidationRuns == {validate_image_size(net) : net \in NetBehaviours}

NoProbe ==
    [ok |-> TRUE, head |-> "not_run", content_length |-> NoAttr,
     get |-> "not_run", decode |-> "not_run", size |-> <<0, 0>>]

(***************************************************************************)
(* Selector                                                                *)
(***************************************************************************)

\* max([img['score'] for img in all_images], default=0)
BestScore(images) ==
    IF images = <<>> THEN 0
    ELSE CHOOSE s \in {images[i].score : i \in 1..Len(images)} :
            \A i \in 1..Len(images) : s >= images[i].score

\* seen_urls[img_url] = img: a new key is appended, an existing key keeps its
\* place and takes the new value (dictionaries keep insertion order)
Store(seen, img) ==
    IF img.url \in UrlsOf(seen)
    THEN [i \in 1..Len(seen) |-> IF seen[i].url = img.url THEN img ELSE seen[i]]
    ELSE Append(seen, img)

\* the position of a URL that is stored
KeyPosition(seen, url) == CHOOSE i \in 1..Len(seen) : seen[i].url = url

\* a plain assignment: the last candidate of a URL wins
ReplacesMutant(seen, img) == TRUE

\* "img_url not in seen_urls or img['score'] > seen_urls[img_url]['score']"
Replaces(seen, img) ==
    \/ img.url \notin UrlsOf(seen)
    \/ img.score > seen[KeyPosition(seen, img.url)].score

\* the score comparison left out: the first candidate of a URL is kept
RECURSIVE MergeLoopMutant(_, _)
MergeLoopMutant(seen, images) ==
    IF images = <<>> THEN seen
    ELSE IF images[1].url \notin UrlsOf(seen)
         THEN MergeLoopMutant(Append(seen, images[1]), Tail(images))
         ELSE MergeLoopMutant(seen, Tail(images))

\* the duplicate-removal loop of scrape_article_images
RECURSIVE MergeLoop(_, _)
MergeLoop(seen, images) ==
    IF images = <<>> THEN seen
    ELSE LET img == images[1] IN
         IF Replaces(seen, img)
         THEN MergeLoop(Store(seen, img), Tail(images))
         ELSE MergeLoop(seen, Tail(images))

\* list(seen_urls.values())
MergeByUrl(images) == MergeLoop(<<>>, images)

\* the comparison turned round: lowest score first
RECURSIVE InsertByScoreMutant(_, _)
InsertByScoreMutant(sorted, img) ==
    IF sorted = <<>> THEN <<img>>
    ELSE IF sorted[1].score <= img.score
         THEN <<sorted[1]>> \o InsertByScoreMutant(Tail(sorted), img)
         ELSE <<img>> \o sorted

\* insertion that keeps equal scores in their order of arrival
RECURSIVE InsertByScore(_, _)
InsertByScore(sorted, img) ==
    IF sorted = <<>> THEN <<img>>
    ELSE IF sorted[1].score >= img.score
         THEN <<sorted[1]>> \o InsertByScore(Tail(sorted), img)
         ELSE <<img>> \o sorted

\* the sort left out
SortByScoreMutant(images) == images

\* unique_images.sort(key=score, reverse=True): stable, highest score first
RECURSIVE SortByScore(_)
SortByScore(images) ==
    IF images = <<>> THEN <<>>
    ELSE InsertByScore(SortByScore(SubSeq(images, 1, Len(images) - 1)),
                       images[Len(images)])

\* MIN_ACCEPTABLE_SCORE
MIN_ACCEPTABLE_SCORE == 40

\* the comparison off by one
RunsNewspaperMutant(images) == BestScore(images) <= 80

\* "if best_score < 80": the newspaper3k extractor runs
RunsNewspaper(images) == BestScore(images) < 80

\* the third method tested against a threshold above the second's
RunsBeautifulSoupMutant(images) == BestScore(images) < 90

\* "if best_score < 70": the BeautifulSoup extractor runs
RunsBeautifulSoup(images) == BestScore(images) < 70

\* the minimum score left out of the loop's test
MeetsMinimumMutant(img) == img.score >= 0

\* img_data['score'] >= MIN_ACCEPTABLE_SCORE
MeetsMinimum(img) == img.score >= MIN_ACCEPTABLE_SCORE

\* the merge, sort and selection loop of scrape_article_images as one
\* function of the collected candidates and of the set of URLs the validator
\* accepts: the first sorted candidate that meets the minimum and is accepted
SelectFrom(images, accepts) ==
    LET sorted  == SortByScore(MergeByUrl(images))
        passing == {i \in 1..Len(sorted) :
                       MeetsMinimum(sorted[i]) /\ sorted[i].url \in accepts}
    IN  IF passing = {} THEN <<>>
        ELSE <<sorted[CHOOSE i \in passing : \A j \in passing : i <= j]>>

(***************************************************************************)
(* process_article for one article: load the record, run the fallback      *)
(* chain, merge, rank, select, download, write the record                  *)
(***************************************************************************)

VARIABLES
    page,           \* what the article's page holds
    pc,             \* position in process_article / scrape_article_images
    all_images,     \* candidates collected by the extractors run so far
    invoked,        \* the extractor calls made, in order: outcome and return value
    unique_images,  \* the merged candidates, sorted by score
    idx,            \* position of the selection loop in unique_images
    validated,      \* the validate_image_size calls made, in order
    probe,          \* what the last validate_image_size call observed
    result,         \* return value of scrape_article_images (<<>> is None)
    record,         \* the article record written to the output folder
    loaded,         \* how reading the article's JSON file went
    downloaded,     \* return value of download_image
    returned,       \* return value of process_article
    json_files,     \* run_pipeline: the input files, each with the page of its article
    titles,         \* run_pipeline: the 'title' of each input file (<<>> where it has none)
    output_folder,  \* the files under self.output_folder, each with the article that wrote it
    position,       \* run_pipeline: the file the loop is at
    successful,     \* run_pipeline: counter
    failed,         \* run_pipeline: counter
    handled,        \* run_pipeline: the process_article calls that returned, in order
    interrupted,    \* run_pipeline: a KeyboardInterrupt ended the loop
    stats           \* return value of run_pipeline

NoRecord == [written |-> FALSE, image |-> <<>>]

\* the input and the bookkeeping of run_pipeline
counting == <<json_files, titles, position, successful, failed, handled, interrupted, stats>>

\* the state of run_pipeline
pipeline == <<counting, output_folder>>

vars == <<page, pc, all_images, invoked, unique_images, idx, validated, probe,
          result, record, loaded, downloaded, returned, pipeline>>

NoStats == [returned |-> FALSE, total |-> 0, successful |-> 0, failed |-> 0]

\* process_article has not started
FreshArticle ==
    /\ all_images = <<>>
    /\ invoked = <<>>
    /\ unique_images = <<>>
    /\ idx = 0
    /\ validated = <<>>
    /\ probe = NoProbe
    /\ result = <<>>
    /\ record = NoRecord
    /\ loaded = "not_run"
    /\ downloaded = "not_run"
    /\ returned = "running"

\* run_pipeline has not started
NoPipeline ==
    /\ json_files = <<>>
    /\ titles = <<>>
    /\ output_folder = <<>>
    /\ position = 0
    /\ successful = 0
    /\ failed = 0
    /\ handled = <<>>
    /\ interrupted = FALSE
    /\ stats = NoStats

\* one call of process_article, for any page
Init ==
    /\ page \in Pages
    /\ pc = "load"
    /\ FreshArticle
    /\ NoPipeline

\* process_article up to the call of scrape_article_images: the record is
\* read and its url taken; a record that cannot be read or has no url ends the
\* call with False
LoadArticle ==
    /\ pc = "load"
    /\ \E outcome \in {"ok", "no_url", "error"} :
          /\ loaded' = outcome
          /\ IF outcome = "ok"
             THEN /\ pc' = "trafilatura"
                  /\ returned' = returned
             ELSE /\ pc' = "done"
                  /\ returned' = "False"
    /\ UNCHANGED <<pipeline, downloaded, page, all_images, invoked, unique_images, idx, validated,
                   probe, result, record>>

\* Method 1: always run
ExtractTrafilatura ==
    /\ pc = "trafilatura"
    /\ \E outcome \in {"ok", "nodownload", "raise"} :
          LET images == extract_images_trafilatura(page, outcome) IN
          /\ all_images' = all_images \o images
          /\ invoked' = Append(invoked, [method |-> "trafilatura", outcome |-> outcome,
                                         images |-> images])
    /\ pc' = "newspaper"
    /\ UNCHANGED <<pipeline, loaded, downloaded, page, unique_images, idx, validated, probe, result, record, returned>>

\* Method 2: run when the best score so far is below 80
ExtractNewspaper ==
    /\ pc = "newspaper"
    /\ RunsNewspaper(all_images)
    /\ \E outcome \in {"ok", "raise"} :
          LET images == extract_images_newspaper(page, outcome) IN
          /\ all_images' = all_images \o images
          /\ invoked' = Append(invoked, [method |-> "newspaper", outcome |-> outcome,
                                         images |-> images])
    /\ pc' = "soup"
    /\ UNCHANGED <<pipeline, loaded, downloaded, page, unique_images, idx, validated, probe, result, record, returned>>

SkipNewspaper ==
    /\ pc = "newspaper"
    /\ ~RunsNewspaper(all_images)
    /\ pc' = "soup"
    /\ UNCHANGED <<pipeline, loaded, downloaded, page, all_images, invoked, unique_images, idx, validated, probe,
                   result, record, returned>>

\* Method 3: run when the best score so far is below 70
ExtractBeautifulSoup ==
    /\ pc = "soup"
    /\ RunsBeautifulSoup(all_images)
    /\ \E outcome \in {"ok", "raise"} :
          LET images == extract_images_beautifulsoup(page, outcome) IN
          /\ all_images' = all_images \o images
          /\ invoked' = Append(invoked, [method |-> "soup", outcome |-> outcome,
                                         images |-> images])
    /\ pc' = "merge"
    /\ UNCHANGED <<pipeline, loaded, downloaded, page, unique_images, idx, validated, probe, result, record, returned>>

SkipBeautifulSoup ==
    /\ pc = "soup"
    /\ ~RunsBeautifulSoup(all_images)
    /\ pc' = "merge"
    /\ UNCHANGED <<pipeline, loaded, downloaded, page, all_images, invoked, unique_images, idx, validated, probe,
                   result, record, returned>>

\* "if not all_images: return None", else remove duplicates and sort
MergeAndSort ==
    /\ pc = "merge"
    /\ IF all_images = <<>>
       THEN /\ pc' = "scraped"
            /\ UNCHANGED <<unique_images, idx>>
       ELSE /\ unique_images' = SortByScore(MergeByUrl(all_images))
            /\ idx' = 1
            /\ pc' = "select"
    /\ UNCHANGED <<pipeline, loaded, downloaded, page, all_images, invoked, validated, probe, result, record, returned>>

\* selection loop, a candidate below the minimum score: the "and" does not
\* evaluate validate_image_size
SkipBelowMinimum ==
    /\ pc = "select"
    /\ idx <= Len(unique_images)
    /\ ~MeetsMinimum(unique_images[idx])
    /\ idx' = idx + 1
    /\ UNCHANGED <<pipeline, loaded, downloaded, page, pc, all_images, invoked, unique_images, validated, probe,
                   result, record, returned>>

\* selection loop, a candidate at or above the minimum score: the call of
\* validate_image_size
ValidateCandidate ==
    /\ pc = "select"
    /\ idx <= Len(unique_images)
    /\ MeetsMinimum(unique_images[idx])
    /\ \E run \in ValidationRuns :
          /\ probe' = run
          /\ validated' = Append(validated, [url |-> unique_images[idx].url, ok |-> run.ok])
    /\ pc' = "validated"
    /\ UNCHANGED <<pipeline, loaded, downloaded, page, all_images, invoked, unique_images, idx, result, record, returned>>

\* selection loop, after the validator's answer: an accepted candidate is
\* returned, a rejected one moves the loop on
UseValidation ==
    /\ pc = "validated"
    /\ IF probe.ok
       THEN /\ result' = <<unique_images[idx]>>
            /\ pc' = "scraped"
            /\ idx' = idx
       ELSE /\ idx' = idx + 1
            /\ pc' = "select"
            /\ result' = result
    /\ probe' = NoProbe
    /\ UNCHANGED <<pipeline, loaded, downloaded, page, all_images, invoked, unique_images, validated, record, returned>>

\* the loop ended without a return: return None
SelectNone ==
    /\ pc = "select"
    /\ idx > Len(unique_images)
    /\ pc' = "scraped"
    /\ UNCHANGED <<pipeline, loaded, downloaded, page, all_images, invoked, unique_images, idx, validated, probe,
                   result, record, returned>>

\* title = article_data.get('title', 'Untitled') of the article being processed
Title == IF position \in DOMAIN titles /\ titles[position] # <<>>
         THEN titles[position][1] ELSE "Untitled"

\* the titles the articles can have, 'Untitled' for an article without one
TitleTexts ==
    {"Untitled", "", TitleColon, TitleQuestion, TitleSpaced, TitleLongA, TitleLongB,
     TitleDots, TitleSports}

\* folder_name = self.sanitize_filename(title), for every title
FolderNames == [title \in TitleTexts |-> sanitize_filename(title)]

\* article_folder = self.output_folder / folder_name
article_folder == FolderNames[Title]

\* open(path, 'w') and Image.save(path): the file is created, or replaced when
\* it is there (mkdir(exist_ok=True) accepts a folder that is there)
WriteFile(folder, name) == (<<folder, name>> :> position) @@ output_folder

\* the missing image treated as a failure: nothing written, False returned
WriteWithoutImageMutant ==
    /\ pc = "scraped"
    /\ result = <<>>
    /\ record' = record
    /\ returned' = "False"
    /\ pc' = "done"
    /\ UNCHANGED <<pipeline, loaded, downloaded, page, all_images, invoked, unique_images, idx, validated, probe, result>>

\* process_article, no image chosen: the record is written with image = None
\* (the output folder is taken to be writable)
WriteWithoutImage ==
    /\ pc = "scraped"
    /\ result = <<>>
    /\ record' = [written |-> TRUE, image |-> <<>>]
    /\ output_folder' = WriteFile(article_folder, "article_data.json")
    /\ returned' = "True"
    /\ pc' = "done"
    /\ UNCHANGED <<counting, loaded, downloaded, page, all_images, invoked, unique_images, idx, validated, probe, result>>

\* image_info of process_article
ImageInfo(img) ==
    [url |-> img.url, relevance_score |-> img.score, source_method |-> img.source]

\* What the network, the decoder and the file system answer when the chosen
\* image is fetched, opened and saved as JPEG.
DownloadBehaviours ==
    [get : {"ok", "fail"}, open : {"ok", "fail"}, save : {"ok", "fail"}]

\* download_image: True when every step went through, False when one raised
download_image(net) == net.get = "ok" /\ net.open = "ok" /\ net.save = "ok"

\* a failed download treated as a failed article: nothing written, False returned
DownloadAndWriteMutant ==
    /\ pc = "scraped"
    /\ result # <<>>
    /\ \E net \in DownloadBehaviours :
          IF download_image(net)
          THEN /\ downloaded' = "True"
               /\ record' = [written |-> TRUE, image |-> <<ImageInfo(result[1])>>]
               /\ output_folder' =
                      (<<article_folder, "image.jpg">> :> position)
                      @@ WriteFile(article_folder, "article_data.json")
               /\ returned' = "True"
          ELSE /\ downloaded' = "False"
               /\ record' = record
               /\ output_folder' = output_folder
               /\ returned' = "False"
    /\ pc' = "done"
    /\ UNCHANGED <<counting, loaded, page, all_images, invoked, unique_images, idx,
                   validated, probe, result>>

\* process_article, an image chosen: download_image answers True or False,
\* the record is written with the image information or with None
\* (the output folder is taken to be writable)
DownloadAndWrite ==
    /\ pc = "scraped"
    /\ result # <<>>
    /\ \E net \in DownloadBehaviours :
          /\ downloaded' = (IF download_image(net) THEN "True" ELSE "False")
          /\ record' = [written |-> TRUE,
                        image |-> IF download_image(net)
                                  THEN <<ImageInfo(result[1])>> ELSE <<>>]
          /\ output_folder' =
                 IF download_image(net)
                 THEN (<<article_folder, "image.jpg">> :> position)
                      @@ WriteFile(article_folder, "article_data.json")
                 ELSE WriteFile(article_folder, "article_data.json")
    /\ returned' = "True"
    /\ pc' = "done"
    /\ UNCHANGED <<counting, loaded, page, all_images, invoked, unique_images, idx,
                   validated, probe, result>>

Next ==
    \/ LoadArticle
    \/ ExtractTrafilatura
    \/ ExtractNewspaper
    \/ SkipNewspaper
    \/ ExtractBeautifulSoup
    \/ SkipBeautifulSoup
    \/ MergeAndSort
    \/ SkipBelowMinimum
    \/ ValidateCandidate
    \/ UseValidation
    \/ SelectNone
    \/ WriteWithoutImage
    \/ DownloadAndWrite

Spec == Init /\ [][Next]_vars

(***************************************************************************)
(* run_pipeline: process_article for every input file, counting            *)
(***************************************************************************)

MaxFiles == 3

EmptyPage ==
    [trafMain |-> "", trafInline |-> <<>>, newsTop |-> "", newsImages |-> <<>>,
     og |-> "", twitter |-> "", ldjson |-> <<>>, imgs |-> <<>>, pictures |-> <<>>]

\* the pages of the articles of a batch: one whose metadata image scores 80,
\* one whose only image scores below the minimum
BatchPages ==
    {[EmptyPage EXCEPT !.trafMain = UrlStory], [EmptyPage EXCEPT !.trafMain = UrlSmall]}

\* list(self.input_folder.glob('*.json')): any list of up to MaxFiles files
FileLists == UNION {[1..n -> BatchPages] : n \in 0..MaxFiles}

\* the positions of process_article at which a KeyboardInterrupt can arrive
ArticleSteps ==
    {"load", "trafilatura", "newspaper", "soup", "merge", "select", "validated",
     "scraped", "done"}

\* the locals of process_article are gone when the call has ended
ResetArticle ==
    /\ all_images' = <<>>
    /\ invoked' = <<>>
    /\ unique_images' = <<>>
    /\ idx' = 0
    /\ validated' = <<>>
    /\ probe' = NoProbe
    /\ result' = <<>>
    /\ record' = NoRecord
    /\ loaded' = "not_run"
    /\ downloaded' = "not_run"
    /\ returned' = "running"

\* one call of run_pipeline, for any input folder
PipelineInit ==
    /\ json_files \in FileLists
    /\ titles = [i \in DOMAIN json_files |-> <<>>]
    /\ output_folder = <<>>
    /\ page = EmptyPage
    /\ pc = "start"
    /\ FreshArticle
    /\ position = 0
    /\ successful = 0
    /\ failed = 0
    /\ handled = <<>>
    /\ interrupted = FALSE
    /\ stats = NoStats

\* run_pipeline up to the loop: no files, the zero statistics are returned
StartPipeline ==
    /\ pc = "start"
    /\ IF json_files = <<>>
       THEN /\ stats' = [returned |-> TRUE, total |-> 0, successful |-> 0, failed |-> 0]
            /\ pc' = "finished"
            /\ UNCHANGED <<page, position>>
       ELSE /\ position' = 1
            /\ page' = json_files[1]
            /\ pc' = "load"
            /\ stats' = stats
    /\ UNCHANGED <<all_images, invoked, unique_images, idx, validated, probe, result,
                   record, loaded, downloaded, returned, json_files, titles,
                   output_folder, successful, failed, handled, interrupted>>

\* the else branch left out: a failed article is not counted
CountArticleUncountedMutant ==
    /\ pc = "done"
    /\ position >= 1
    /\ IF returned = "True"
       THEN successful' = successful + 1 /\ failed' = failed
       ELSE failed' = failed /\ successful' = successful
    /\ handled' = Append(handled, [file |-> position, loaded |-> loaded,
                                   downloaded |-> downloaded, returned |-> returned])
    /\ IF position < Len(json_files)
       THEN /\ position' = position + 1
            /\ page' = json_files[position + 1]
            /\ pc' = "load"
       ELSE /\ pc' = "stats"
            /\ UNCHANGED <<page, position>>
    /\ ResetArticle
    /\ UNCHANGED <<json_files, titles, output_folder, interrupted, stats>>

\* a failed article ending the loop
CountArticleMutant ==
    /\ pc = "done"
    /\ position >= 1
    /\ IF returned = "True"
       THEN successful' = successful + 1 /\ failed' = failed
       ELSE failed' = failed + 1 /\ successful' = successful
    /\ handled' = Append(handled, [file |-> position, loaded |-> loaded,
                                   downloaded |-> downloaded, returned |-> returned])
    /\ IF position < Len(json_files) /\ returned = "True"
       THEN /\ position' = position + 1
            /\ page' = json_files[position + 1]
            /\ pc' = "load"
       ELSE /\ pc' = "stats"
            /\ UNCHANGED <<page, position>>
    /\ ResetArticle
    /\ UNCHANGED <<json_files, titles, output_folder, interrupted, stats>>

\* the loop body after process_article returned: one counter goes up and the
\* loop moves to the next file, or ends after the last
CountArticle ==
    /\ pc = "done"
    /\ position >= 1
    /\ IF returned = "True"
       THEN successful' = successful + 1 /\ failed' = failed
       ELSE failed' = failed + 1 /\ successful' = successful
    /\ handled' = Append(handled, [file |-> position, loaded |-> loaded,
                                   downloaded |-> downloaded, returned |-> returned])
    /\ IF position < Len(json_files)
       THEN /\ position' = position + 1
            /\ page' = json_files[position + 1]
            /\ pc' = "load"
       ELSE /\ pc' = "stats"
            /\ UNCHANGED <<page, position>>
    /\ ResetArticle
    /\ UNCHANGED <<json_files, titles, output_folder, interrupted, stats>>

\* "except KeyboardInterrupt: break": the interrupt arrives while
\* process_article runs, no counter changes, the loop ends
KeyboardInterrupt ==
    /\ pc \in ArticleSteps
    /\ position >= 1
    /\ interrupted' = TRUE
    /\ pc' = "stats"
    /\ ResetArticle
    /\ UNCHANGED <<page, json_files, titles, output_folder, position, successful, failed,
                   handled, stats>>

\* the statistics are built and returned
ReturnStats ==
    /\ pc = "stats"
    /\ stats' = [returned |-> TRUE, total |-> Len(json_files),
                 successful |-> successful, failed |-> failed]
    /\ pc' = "finished"
    /\ UNCHANGED <<page, all_images, invoked, unique_images, idx, validated, probe,
                   result, record, loaded, downloaded, returned, json_files, titles,
                   output_folder, position, successful, failed, handled, interrupted>>

PipelineNext ==
    \/ StartPipeline
    \/ LoadArticle
    \/ ExtractTrafilatura
    \/ ExtractNewspaper
    \/ SkipNewspaper
    \/ ExtractBeautifulSoup
    \/ SkipBeautifulSoup
    \/ MergeAndSort
    \/ SkipBelowMinimum
    \/ ValidateCandidate
    \/ UseValidation
    \/ SelectNone
    \/ WriteWithoutImage
    \/ DownloadAndWrite
    \/ CountArticle
    \/ KeyboardInterrupt
    \/ ReturnStats

PipelineSpec == PipelineInit /\ [][PipelineNext]_vars

(***************************************************************************)
(* run_pipeline over articles with any titles                              *)
(***************************************************************************)

MaxTitledFiles == 2

\* what the 'title' key of an input file holds: nothing, the empty text or a text
TitlePool == {<<>>} \cup {<<title>> : title \in TitleTexts \ {"Untitled"}}

\* one call of run_pipeline, for any input folder of up to MaxTitledFiles files
TitledInit ==
    /\ \E n \in 0..MaxTitledFiles :
          /\ json_files \in [1..n -> BatchPages]
          /\ titles \in [1..n -> TitlePool]
    /\ output_folder = <<>>
    /\ page = EmptyPage
    /\ pc = "start"
    /\ FreshArticle
    /\ position = 0
    /\ successful = 0
    /\ failed = 0
    /\ handled = <<>>
    /\ interrupted = FALSE
    /\ stats = NoStats

TitledSpec == TitledInit /\ [][PipelineNext]_vars

(***************************************************************************)
(* The merge, sort and selection step of scrape_article_images on any list *)
(* of candidates                                                           *)
(***************************************************************************)

MaxCandidates == 3

\* candidates as the extractors score them: two URLs with the same score, one
\* below the minimum, one URL found by two methods with different scores
CandidatePool ==
    {Candidate(UrlPixel, Score(UrlPixel, NoTag, "trafilatura_main"), "trafilatura_main"),
     Candidate(UrlStory, Score(UrlStory, NoTag, "newspaper_top"), "newspaper_top"),
     Candidate(UrlSmall, Score(UrlSmall, NoTag, "trafilatura_main"), "trafilatura_main"),
     Candidate(UrlHero, Score(UrlHero, NoTag, "newspaper_top"), "newspaper_top"),
     Candidate(UrlHero, Score(UrlHero, NoTag, "soup"), "soup")}

\* all_images after the extractors: any list of up to MaxCandidates candidates
CandidateLists == UNION {[1..n -> CandidatePool] : n \in 0..MaxCandidates}

\* scrape_article_images from the merge on, for any collected candidates
SelectorInit ==
    /\ all_images \in CandidateLists
    /\ page = EmptyPage
    /\ pc = "merge"
    /\ invoked = <<>>
    /\ unique_images = <<>>
    /\ idx = 0
    /\ validated = <<>>
    /\ probe = NoProbe
    /\ result = <<>>
    /\ record = NoRecord
    /\ loaded = "ok"
    /\ downloaded = "not_run"
    /\ returned = "running"
    /\ NoPipeline

SelectorNext ==
    \/ MergeAndSort
    \/ SkipBelowMinimum
    \/ ValidateCandidate
    \/ UseValidation
    \/ SelectNone

SelectorSpec == SelectorInit /\ [][SelectorNext]_vars

(***************************************************************************)
(* Properties                                                              *)
(***************************************************************************)

\* the extractor was called in this run
Ran(method) == \E i \in 1..Len(invoked) : invoked[i].method = method

\* the extractor's call in this run
CallOf(method) == invoked[CHOOSE i \in 1..Len(invoked) : invoked[i].method = method]

\* scrape_article_images has started
ScrapeStarted == pc \notin {"load", "trafilatura"} /\ ~(pc = "done" /\ invoked = <<>>)

\* the decision about the newspaper3k extractor has been taken
PastNewspaper == ScrapeStarted /\ pc # "newspaper"

\* the decision about the BeautifulSoup extractor has been taken
PastChain == PastNewspaper /\ pc # "soup"

\* scrape_article_images has returned
Scraped == ScrapeStarted /\ pc \in {"scraped", "done"}

\* what the extractor returned in this run, nothing if it was not called
Returned(method) == IF Ran(method) THEN CallOf(method).images ELSE <<>>

InRange(score) == 0 <= score /\ score <= 100

\* C1: every candidate an extractor produced has a score within 0..100, and
\* so has the candidate scrape_article_images returns and the relevance_score
\* written to the record.
C1_ScoresWithinRange ==
    /\ \A i \in 1..Len(all_images) : InRange(all_images[i].score)
    /\ result # <<>> => InRange(result[1].score)
    /\ record.image # <<>> => InRange(record.image[1].relevance_score)

\* C2: trafilatura is always called; newspaper3k is called exactly when the
\* best score after trafilatura is below 80; BeautifulSoup is called exactly
\* when the best score after these is below 70.  So a trafilatura best of 80
\* or more leaves both uncalled, and a best of 75 calls newspaper3k and skips
\* BeautifulSoup.
C2_ChainPolicy ==
    LET first  == BestScore(Returned("trafilatura"))
        second == BestScore(Returned("trafilatura") \o Returned("newspaper"))
    IN  /\ ScrapeStarted => invoked[1].method = "trafilatura"
        /\ PastNewspaper => (Ran("newspaper") <=> first < 80)
        /\ PastChain =>
              /\ Ran("soup") <=> second < 70
              /\ first >= 80 => ~Ran("newspaper") /\ ~Ran("soup")
              /\ first = 75 => Ran("newspaper") /\ ~Ran("soup")

\* C2 witness: the chain ended after a trafilatura best of 75; newspaper3k
\* ran and BeautifulSoup was skipped.
C2_Witness ==
    /\ pc = "merge"
    /\ BestScore(Returned("trafilatura")) = 75
    /\ Ran("newspaper")
    /\ ~Ran("soup")

\* the validator's answer for a URL it was asked about
Accepted(url) == \E i \in 1..Len(validated) : validated[i] = [url |-> url, ok |-> TRUE]
Rejected(url) == \E i \in 1..Len(validated) : validated[i] = [url |-> url, ok |-> FALSE]

\* C3: a returned candidate has a score of at least 40 and was accepted by
\* validate_image_size, and every merged candidate with a strictly higher
\* score (all of them at least 40) was rejected by validate_image_size.
C3_FirstPassingCandidate ==
    (Scraped /\ result # <<>>) =>
        /\ result[1].score >= 40
        /\ Accepted(result[1].url)
        /\ \E i \in 1..Len(unique_images) : unique_images[i] = result[1]
        /\ \A i \in 1..Len(unique_images) :
              unique_images[i].score > result[1].score =>
                  Rejected(unique_images[i].url) /\ ~Accepted(unique_images[i].url)

\* C3 witness: a candidate was returned after a higher-scored one was
\* rejected by the validator, with a candidate below 40 left in the list.
C3_Witness ==
    /\ pc = "scraped"
    /\ result # <<>>
    /\ \E i \in 1..Len(unique_images) :
          unique_images[i].score > result[1].score /\ Rejected(unique_images[i].url)
    /\ \E i \in 1..Len(unique_images) : unique_images[i].score < 40

\* the scores the extractors gave a URL
ScoresOf(url) == {all_images[i].score : i \in {j \in 1..Len(all_images) : all_images[j].url = url}}

\* C4: after the merge every URL of the collected candidates has exactly one
\* merged entry, whose score is the highest score collected for that URL.
C4_MergeKeepsHighest ==
    pc \in {"select", "validated"} =>
        /\ UrlsOf(unique_images) = UrlsOf(all_images)
        /\ \A u \in UrlsOf(all_images) :
              /\ Cardinality({i \in 1..Len(unique_images) : unique_images[i].url = u}) = 1
              /\ \A i \in 1..Len(unique_images) :
                    unique_images[i].url = u =>
                        /\ unique_images[i].score \in ScoresOf(u)
                        /\ \A s \in ScoresOf(u) : unique_images[i].score >= s

\* C4 witness: a URL was collected twice, the second time with the higher
\* score, and the merge has run.
C4_Witness ==
    /\ pc = "select"
    /\ \E i, j \in 1..Len(all_images) :
          /\ i < j
          /\ all_images[i].url = all_images[j].url
          /\ all_images[i].score < all_images[j].score

\* C5: no candidate returned by an extractor has a URL that
\* _should_exclude_image_url rejects, so none reaches ranking and selection.
C5_NoExcludedCandidate ==
    /\ \A i \in 1..Len(all_images) : ~_should_exclude_image_url(all_images[i].url)
    /\ \A i \in 1..Len(unique_images) : ~_should_exclude_image_url(unique_images[i].url)

\* the three extractors in every order
Orders ==
    {o \in [1..3 -> {"trafilatura", "newspaper", "soup"}] :
        \A i, j \in 1..3 : o[i] = o[j] => i = j}

ChainOrder == <<"trafilatura", "newspaper", "soup">>

\* what an extractor returns when it runs on the page: the value it returned
\* in this run, or for an extractor the chain skipped every value it can return
PossibleReturns(method) ==
    IF Ran(method) THEN {Returned(method)}
    ELSE IF method = "newspaper"
         THEN {extract_images_newspaper(page, outcome) : outcome \in {"ok", "raise"}}
         ELSE {extract_images_beautifulsoup(page, outcome) : outcome \in {"ok", "raise"}}

\* every assignment of return values to the three extractors that agrees with
\* this run
Outputs ==
    {out \in [{"trafilatura", "newspaper", "soup"} ->
                 UNION {PossibleReturns(m) : m \in {"trafilatura", "newspaper", "soup"}}] :
        \A m \in {"trafilatura", "newspaper", "soup"} : out[m] \in PossibleReturns(m)}

\* every validator (the set of URLs it accepts) that agrees with the answers
\* given in this run
Validators(out) ==
    {accepts \in SUBSET (UrlsOf(out["trafilatura"]) \cup UrlsOf(out["newspaper"])
                            \cup UrlsOf(out["soup"])) :
        \A i \in 1..Len(validated) : (validated[i].url \in accepts) <=> validated[i].ok}

\* the candidate chosen when all three extractors run, in the given order
RunAll(out, order, accepts) ==
    SelectFrom(out[order[1]] \o out[order[2]] \o out[order[3]], accepts)

\* the image a selection names: its URL, or nothing
ChosenUrl(selection) == IF selection = <<>> THEN <<>> ELSE <<selection[1].url>>

\* C6 (as claimed): whatever the extractors return and the validator accepts,
\* the image the early-exit chain returns is the image chosen when all three
\* extractors run, in any order.
C6_EarlyExitIrrelevant ==
    pc = "scraped" =>
        \A out \in Outputs : \A accepts \in Validators(out) : \A order \in Orders :
            ChosenUrl(RunAll(out, order, accepts)) = ChosenUrl(result)

\* C6 (amended): when the chain returns a candidate, running all three
\* extractors in any order also chooses one, with a score at least as high;
\* when the chain skipped no extractor the two choices have the same score in
\* any order and are the same candidate in the chain's order.
C6_RunAllAtLeastAsGood ==
    pc = "scraped" =>
        \A out \in Outputs : \A accepts \in Validators(out) : \A order \in Orders :
            LET all == RunAll(out, order, accepts) IN
            /\ result # <<>> => all # <<>> /\ all[1].score >= result[1].score
            /\ (Ran("newspaper") /\ Ran("soup")) =>
                  /\ (all = <<>>) <=> (result = <<>>)
                  /\ all # <<>> => all[1].score = result[1].score
                  /\ order = ChainOrder => all = result

\* C6 witness: the chain returned a candidate without calling BeautifulSoup,
\* and running all three extractors chooses a candidate with a higher score.
C6_Witness ==
    /\ pc = "scraped"
    /\ result # <<>>
    /\ ~Ran("soup")
    /\ \E out \in Outputs : \E accepts \in Validators(out) :
          LET all == RunAll(out, ChainOrder, accepts) IN
          all # <<>> /\ all[1].score > result[1].score

\* C7 (as claimed): when the tracking-pixel URL is the only candidate found,
\* the URL filter excludes it, its score is at most 0, and
\* scrape_article_images returns None.
C7_PixelOnlyNoImage ==
    (pc = "scraped" /\ all_images # <<>> /\ UrlsOf(all_images) = {UrlPixel}) =>
        /\ _should_exclude_image_url(UrlPixel)
        /\ \A i \in 1..Len(all_images) : all_images[i].score <= 0
        /\ result = <<>>

\* the extractor call a step makes, when it makes one
Called == invoked'[Len(invoked')]

NextExtractor ==
    [trafilatura |-> "newspaper", newspaper |-> "soup", soup |-> "merge"]

\* C8: an extractor call that fails returns an empty list, leaves the
\* candidates collected so far as they were and moves the chain to the next
\* threshold test without ending scrape_article_images; after a failure the
\* next extractor runs or is skipped by its threshold alone.
C8_FailSoft ==
    /\ [][(Len(invoked') = Len(invoked) + 1 /\ Called.outcome # "ok") =>
            /\ Called.images = <<>>
            /\ all_images' = all_images
            /\ pc' = NextExtractor[Called.method]
            /\ result' = result /\ returned' = "running"]_vars
    /\ [](PastNewspaper =>
            (Ran("newspaper") <=> BestScore(Returned("trafilatura")) < 80))
    /\ [](PastChain =>
            /\ Ran("soup") <=>
                  BestScore(Returned("trafilatura") \o Returned("newspaper")) < 70
            /\ all_images = Returned("trafilatura") \o Returned("newspaper")
                               \o Returned("soup"))

\* C8 witness: newspaper failed after trafilatura had collected candidates;
\* BeautifulSoup ran all the same, and the candidates of both were merged.
C8_Witness ==
    /\ pc = "select"
    /\ Ran("newspaper") /\ CallOf("newspaper").outcome = "raise"
    /\ Returned("trafilatura") # <<>>
    /\ Ran("soup") /\ Returned("soup") # <<>>
    /\ all_images = Returned("trafilatura") \o Returned("soup")

\* C9: a validate_image_size call in which the HEAD request, the streamed GET
\* or the decoding of the size failed answers True; a call answers False only
\* after a content-length above 10 MB or a decoded width or height below 100.
C9_ValidatorDefaultsToAccept ==
    pc = "validated" =>
        /\ (probe.head = "fail" \/ probe.get = "fail" \/ probe.decode = "fail")
              => probe.ok
        /\ ~probe.ok =>
              \/ /\ probe.content_length.kind = "int"
                 /\ probe.content_length.val > 10 * 1024 * 1024
              \/ /\ probe.decode = "ok"
                 /\ (probe.size[1] < 100 \/ probe.size[2] < 100)
        /\ validated[Len(validated)].ok = probe.ok

\* C9 witness: the size of a candidate could not be decoded and the call
\* answered True.
C9_Witness ==
    /\ pc = "validated"
    /\ probe.head = "ok" /\ probe.get = "ok" /\ probe.decode = "fail"
    /\ probe.ok

\* no collected candidate qualifies: each scores below 40 or was rejected by
\* the validator
NoneQualifies ==
    \A i \in 1..Len(all_images) :
        \/ all_images[i].score < 40
        \/ \E j \in 1..Len(validated) :
              validated[j].url = all_images[i].url /\ ~validated[j].ok

LoopEnded == pc \in {"stats", "finished"}

\* C11: a failed article is counted as failed and the loop goes on with the
\* next file; without an interrupt every input file is processed exactly once,
\* in order, whatever happened to the files before it, and only an interrupt
\* ends the loop before the last file.
C11_BatchSurvivesFailures ==
    /\ [](\A i \in 1..Len(handled) : handled[i].file = i)
    /\ []((LoopEnded /\ ~interrupted) => Len(handled) = Len(json_files))
    /\ []((LoopEnded /\ Len(handled) < Len(json_files)) => interrupted)
    /\ [][(pc = "done" /\ returned = "False" /\ ~interrupted') =>
            /\ failed' = failed + 1 /\ successful' = successful
            /\ position < Len(json_files) =>
                  pc' = "load" /\ position' = position + 1]_vars

\* C11 witness: the first article failed, the second was processed all the
\* same, and the run ended without an interrupt.
C11_Witness ==
    /\ pc = "finished"
    /\ ~interrupted
    /\ Len(json_files) >= 2
    /\ handled[1].returned = "False"
    /\ handled[2].returned = "True"
    /\ Len(handled) = Len(json_files)

C13_NoDuplicateUrls ==
    Ran("soup") =>
        \A i, j \in 1..Len(Returned("soup")) :
            Returned("soup")[i].url = Returned("soup")[j].url => i = j

\* the same candidates presented in every order
Presentations(images) ==
    {[i \in 1..Len(images) |-> images[f[i]]] :
        f \in {g \in [1..Len(images) -> 1..Len(images)] :
                  \A i, j \in 1..Len(images) : g[i] = g[j] => i = j}}

\* every validator (the set of URLs it accepts) that agrees with the answers
\* given in this run
Accepting(images) ==
    {accepts \in SUBSET UrlsOf(images) :
        \A i \in 1..Len(validated) : (validated[i].url \in accepts) <=> validated[i].ok}

\* C14 (as claimed): with the same validator, the image chosen from the
\* collected candidates is the same in whatever order they are presented.
C14_OrderIndependent ==
    pc = "scraped" =>
        \A images \in Presentations(all_images) : \A accepts \in Accepting(all_images) :
            ChosenUrl(SelectFrom(images, accepts)) = ChosenUrl(result)

\* another accepted image has the score of the chosen one
TiedWithChosen(accepts) ==
    \E i \in 1..Len(all_images) :
        /\ all_images[i].url # result[1].url
        /\ all_images[i].url \in accepts
        /\ BestScore(SelectFrom(all_images, {all_images[i].url})) = result[1].score

\* C14 (amended): with the same validator, the same candidates in the same
\* order give the same choice; in any other order they give a choice exactly
\* when they did, with the same score, and the same image unless another
\* accepted image has that score.
C14_SameScoreAnyOrder ==
    pc = "scraped" =>
        \A images \in Presentations(all_images) : \A accepts \in Accepting(all_images) :
            LET other == SelectFrom(images, accepts) IN
            /\ (other = <<>>) <=> (result = <<>>)
            /\ result # <<>> => other[1].score = result[1].score
            /\ (result # <<>> /\ ~TiedWithChosen(accepts)) =>
                  other[1].url = result[1].url
            /\ images = all_images => other = result

\* C14 witness: two accepted images have the same score, and presenting the
\* candidates in another order chooses the other one.
C14_Witness ==
    /\ pc = "scraped"
    /\ result # <<>>
    /\ \E images \in Presentations(all_images) : \E accepts \in Accepting(all_images) :
          LET other == SelectFrom(images, accepts) IN
          /\ other # <<>>
          /\ other[1].url # result[1].url
          /\ other[1].score = result[1].score

\* the value score_image_relevance returns is within 0..100 for every URL,
\* element and source method of the pages
AllScoresInRange ==
    \A img_url \in UrlPool : \A img_tag \in TagPool : \A source_method \in SourceMethods :
        /\ Score(img_url, img_tag, source_method) \in Int
        /\ InRange(Score(img_url, img_tag, source_method))

\* the source methods whose candidates carry the scorer's value as it is
ScoredAsReturned ==
    {"trafilatura_main", "trafilatura", "newspaper_top", "newspaper", "soup"}

\* C15: score_image_relevance returns an integer within 0..100 for every
\* input, also when the sum of the signals is above 100 or below 0, and so
\* does every candidate that carries its value.
C15_ScorerWithinRange ==
    /\ AllScoresInRange
    /\ \A i \in 1..Len(all_images) :
          all_images[i].source \in ScoredAsReturned => InRange(all_images[i].score)

\* C15 witness: a collected candidate whose signals sum to more than 100 and
\* whose score is 100, while for another input of the pages the signals sum
\* to less than 0 and the score is 0.
C15_Witness ==
    /\ \E i \in 1..Len(all_images) :
          /\ all_images[i].source = "newspaper_top"
          /\ RawScore(all_images[i].url, NoTag, "newspaper_top") > 100
          /\ all_images[i].score = 100
    /\ \E img_tag \in TagPool :
          /\ RawScore(UrlSmall, img_tag, "soup") < 0
          /\ Score(UrlSmall, img_tag, "soup") = 0

\* scenario A: the page holds an og:image at a CDN host that the filter lets
\* through and an img element whose source is logo.png, and nothing else
ScenarioA ==
    /\ page.og \in {UrlHero, UrlUploads}
    /\ page.imgs = <<Img("", PlainTag), Img(RefLogo, PlainTag)>>
    /\ page.trafMain = "" /\ page.trafInline = <<>>
    /\ page.newsTop = "" /\ page.newsImages = <<>>
    /\ page.twitter = "" /\ page.ldjson = <<>> /\ page.pictures = <<>>
    /\ Ran("soup") /\ CallOf("soup").outcome = "ok"

\* the validator rejected nothing
NothingRejected == \A i \in 1..Len(validated) : validated[i].ok

\* C16 (as claimed): in scenario A the OpenGraph candidate's score is at least
\* 50 + 25 + 20, the scorer gives the logo.png image at most 25, and the
\* OpenGraph candidate is the one selected.
C16_ScenarioA ==
    (pc = "scraped" /\ ScenarioA /\ NothingRejected) =>
        /\ \E i \in 1..Len(all_images) :
              /\ all_images[i].source = "opengraph"
              /\ all_images[i].score >= 50 + 25 + 20
              /\ result = <<all_images[i]>>
        /\ Score(UrlLogo, PlainTag, "soup") <= 25

\* C16 (amended): in scenario A the OpenGraph candidate's score is the
\* scorer's value for its URL, which has no method prior for opengraph, plus
\* the bonus 25; the logo.png image is excluded by the filter and is no
\* candidate; the OpenGraph candidate is selected when its score is at least
\* 40 and the validator accepts it, and nothing is selected otherwise.
C16_ScenarioAAsBuilt ==
    (pc = "scraped" /\ ScenarioA) =>
        LET og == Candidate(page.og, Score(page.og, NoTag, "opengraph") + 25,
                            "opengraph")
        IN  /\ Score(page.og, NoTag, "opengraph") =
                  Clamp(RawScore(page.og, NoTag, "soup") - 5)
            /\ all_images = <<og>>
            /\ Exclude(PlainTag, UrlLogo)
            /\ (og.score >= 40 /\ NothingRejected) => result = <<og>>
            /\ (og.score < 40 \/ ~NothingRejected) => result = <<>>

\* C16 witness: scenario A with the uploads image as og:image: its candidate
\* is selected with a score below 50 + 25 + 20.
C16_Witness ==
    /\ pc = "scraped"
    /\ ScenarioA
    /\ page.og = UrlUploads
    /\ result # <<>>
    /\ result[1].source = "opengraph"
    /\ result[1].score < 50 + 25 + 20

\* every URL at a tracking host is excluded by _should_exclude_image_url
TrackingHostsExcluded ==
    \A img_url \in TrackingHostUrls \cup {UrlAds} : _should_exclude_image_url(img_url)

\* C17: _should_exclude_image_url excludes the googlesyndication URL and every
\* URL at a tracking host, and does not exclude the uploads URL; an extractor
\* that filters returns the second as a candidate and never the first.
C17_FilterCorrectness ==
    /\ TrackingHostsExcluded
    /\ ExcludeUrl(UrlAds)
    /\ ~ExcludeUrl(UrlUploads)
    /\ (Ran("soup") /\ CallOf("soup").outcome = "ok") =>
          /\ UrlAds \notin UrlsOf(Returned("soup"))
          /\ page.og = UrlUploads => UrlUploads \in UrlsOf(Returned("soup"))

\* C17 witness: the page's og:image is the googlesyndication URL, the
\* BeautifulSoup extractor ran and returned no candidate for it.
C17_Witness ==
    /\ Ran("soup") /\ CallOf("soup").outcome = "ok"
    /\ page.og = UrlAds
    /\ UrlAds \notin UrlsOf(all_images)

\* the place of a URL in the merged, sorted list
Rank(url) == CHOOSE i \in 1..Len(unique_images) : unique_images[i].url = url

\* the first place at which a URL was collected
FirstSeen(url) ==
    CHOOSE i \in 1..Len(all_images) :
        all_images[i].url = url /\ \A j \in 1..(i - 1) : all_images[j].url # url

\* C18: validate_image_size is called only for merged candidates with a score
\* of at least 40, in the order of the sorted list (scores never rising, equal
\* scores in the order the URLs were first collected), at most once per URL,
\* and not again after a call that accepted.
C18_ValidationDiscipline ==
    /\ \A i \in 1..Len(validated) :
          /\ validated[i].url \in UrlsOf(unique_images)
          /\ unique_images[Rank(validated[i].url)].score >= 40
          /\ i < Len(validated) => ~validated[i].ok
    /\ \A i, j \in 1..Len(validated) :
          i < j =>
            LET first  == unique_images[Rank(validated[i].url)]
                second == unique_images[Rank(validated[j].url)]
            IN  /\ first.url # second.url
                /\ first.score >= second.score
                /\ first.score = second.score =>
                      FirstSeen(first.url) < FirstSeen(second.url)
    /\ \A i \in 1..Len(unique_images) :
          unique_images[i].score < 40 =>
            \A j \in 1..Len(validated) : validated[j].url # unique_images[i].url

\* C18 witness: two candidates with the same score were validated in the order
\* they were collected, both rejected, and a candidate below 40 was passed over
\* without a call.
C18_Witness ==
    /\ pc = "scraped"
    /\ Len(validated) = 2
    /\ unique_images[Rank(validated[1].url)].score
          = unique_images[Rank(validated[2].url)].score
    /\ \E i \in 1..Len(unique_images) : unique_images[i].score < 40
    /\ result = <<>>

\* the place of each extractor in the chain
ChainPlace == [trafilatura |-> 1, newspaper |-> 2, soup |-> 3]

\* C19: the BeautifulSoup extractor is called only after the newspaper3k
\* extractor was called in the same run, and the calls are made in the order
\* trafilatura, newspaper3k, BeautifulSoup, each at most once.
C19_ChainOrder ==
    /\ Ran("soup") => Ran("newspaper")
    /\ invoked # <<>> => invoked[1].method = "trafilatura"
    /\ \A i, j \in 1..Len(invoked) :
          i < j => ChainPlace[invoked[i].method] < ChainPlace[invoked[j].method]

\* C19 witness: all three extractors were called, in the order of the chain.
C19_Witness ==
    /\ Len(invoked) = 3
    /\ invoked[1].method = "trafilatura"
    /\ invoked[2].method = "newspaper"
    /\ invoked[3].method = "soup"
    /\ invoked[1].images # <<>>

\* the number of process_article calls that returned the given value
Count(value) == Cardinality({i \in 1..Len(handled) : handled[i].returned = value})

\* C20: the statistics run_pipeline returns have total = the number of input
\* files and successful + failed <= total, with equality when the run was not
\* interrupted; every file processed raised exactly one of the two counters,
\* and a file without a url raised failed.
C20_StatsAddUp ==
    /\ successful = Count("True")
    /\ failed = Count("False")
    /\ successful + failed = Len(handled)
    /\ successful + failed <= Len(json_files)
    /\ \A i \in 1..Len(handled) :
          handled[i].loaded = "no_url" => handled[i].returned = "False"
    /\ stats.returned =>
          /\ stats.total = Len(json_files)
          /\ stats.successful = successful /\ stats.failed = failed
          /\ stats.successful + stats.failed <= stats.total
          /\ ~interrupted => stats.successful + stats.failed = stats.total

\* C20 witness: an uninterrupted run over three files, one of them without a
\* url, returned statistics with both counters above zero.
C20_Witness ==
    /\ stats.returned
    /\ ~interrupted
    /\ stats.total = 3
    /\ stats.successful > 0 /\ stats.failed > 0
    /\ \E i \in 1..Len(handled) : handled[i].loaded = "no_url"

(***************************************************************************)
(* C21                                                                     *)
(***************************************************************************)

\* the folder process_article used for the article of input file i
FolderOf(i) == FolderNames[IF titles[i] = <<>> THEN "Untitled" ELSE titles[i][1]]

\* the file of that name in the folder holds what the article of file i wrote
HoldsOwn(i, name) ==
    /\ <<FolderOf(i), name>> \in DOMAIN output_folder
    /\ output_folder[<<FolderOf(i), name>>] = i

\* C21: when run_pipeline has returned, every article process_article returned
\* True for still has its own record in the output folder, and its own image
\* file when its image was downloaded: nothing a later article of the run
\* wrote has replaced them, whatever the titles of the articles.
C21_OwnRecordKept ==
    stats.returned =>
        \A k \in DOMAIN handled :
            handled[k].returned = "True" =>
                /\ HoldsOwn(handled[k].file, "article_data.json")
                /\ handled[k].downloaded = "True" => HoldsOwn(handled[k].file, "image.jpg")
====
